---------------------------- MODULE Spec2Model ----------------------------
(***************************************************************************)
(* Model of the product image search application:                          *)
(*   - the batch page (src/app/csv/page.tsx): processCSV, searchForImage   *)
(*   - the interactive page (src/unnamed/part_000): handleSearch           *)
(*   - the image proxy (src/app/api/image-proxy/route.ts): GET             *)
(*                                                                         *)
(* A JavaScript string is a sequence of tokens (each token a run of        *)
(* characters); startsWith, the trailing size= regular expression and the  *)
(* URI component coding are defined on tokens.  A JavaScript value that    *)
(* may be undefined is a record [def, s].                                  *)
(***************************************************************************)
EXTENDS Naturals, Sequences, FiniteSets

(* ------------------------------ bounds -------------------------------- *)
\* most result items in a search response
MaxItems == 2
\* most rows in an uploaded CSV file
MaxRows == 3

(* --------------------------- JavaScript values ------------------------- *)
Undefined == [def |-> FALSE, s |-> <<>>]

Str(s) == [def |-> TRUE, s |-> s]

\* truthiness of a string-or-undefined value: undefined and "" are falsy
Truthy(v) == v.def /\ v.s # <<>>

\* String.prototype.startsWith
StartsWith(s, p) == Len(s) >= Len(p) /\ SubSeq(s, 1, Len(p)) = p

(* ------------------------------- URLs ---------------------------------- *)
TargetPrefix == <<"https://", "target.scene7.com">>

HomeDepotPrefix == <<"https://", "images.thdstatic">>

LowesPrefix == <<"https://", "mobileimages.lowes.com/productimages/">>

HttpsPrefix == <<"https://">>

TargetParams == <<"?qlt=65&fmt=webp&hei=1200&wid=1200">>

\* tokens that contain the character '&'
HasAmp(t) == t \in {"&", "?qlt=65&fmt=webp&hei=1200&wid=1200"}

UrlTarget == <<"https://", "target.scene7.com", "/is/image/Target/a">>

UrlHomeDepot == <<"https://", "images.thdstatic", ".com/b.jpg">>

UrlLowesThumb == <<"https://", "mobileimages.lowes.com/productimages/", "c.jpg", "?", "size=", "thumbnail">>

UrlLowesPlain == <<"https://", "mobileimages.lowes.com/productimages/", "c.jpg">>

UrlLowesMid == <<"https://", "mobileimages.lowes.com/productimages/", "c.jpg", "?", "size=", "thumbnail", "&", "w=1">>

UrlOtherThumb == <<"https://", "other.cdn", "/x.jpg", "?", "size=", "thumbnail">>

UrlHttp == <<"http://", "other.cdn", "/x.jpg">>

\* the src values a first image candidate may carry; Undefined is an entry
\* of cse_image that has no src field
FirstSrcs ==
    { Str(UrlTarget), Str(UrlHomeDepot), Str(UrlLowesThumb), Str(UrlLowesPlain),
      Str(UrlLowesMid), Str(UrlOtherThumb), Str(UrlHttp), Str(<<>>), Undefined }

\* a result item is the list of src values of its pagemap.cse_image; the
\* empty list stands for an item without pagemap or without cse_image
Items ==
    { <<>> } \cup { <<c>> : c \in FirstSrcs }
             \cup { <<c, Str(UrlTarget)>> : c \in FirstSrcs }

SeqsUpTo(S, n) == UNION { [1..k -> S] : k \in 0..n }

\* a parsed search response: the items list may be missing
NoItems == [hasItems |-> FALSE, items |-> <<>>]

SearchResults ==
    { NoItems } \cup { [hasItems |-> TRUE, items |-> its] : its \in SeqsUpTo(Items, MaxItems) }

(* -------------------- the trailing size= parameter --------------------- *)
\* positions where /size=[^&]+$/ matches
SizeMatches(s) ==
    { k \in 1..Len(s) : /\ s[k] = "size="
                        /\ k < Len(s)
                        /\ \A j \in (k+1)..Len(s) : ~HasAmp(s[j]) }

\* s.match(/size=[^&]+$/)
MatchesSize(s) == SizeMatches(s) # {}

Min(S) == CHOOSE x \in S : \A y \in S : x <= y

\* s.replace(/size=[^&]+$/, 'size=full')
ReplaceSize(s) ==
    IF MatchesSize(s)
    THEN SubSeq(s, 1, Min(SizeMatches(s)) - 1) \o <<"size=", "full">>
    ELSE s

(* ------------------------ candidate selection -------------------------- *)
\* item.pagemap?.cse_image?.[0]?.src
FirstSrc(item) == IF Len(item) = 0 THEN Undefined ELSE item[1]

\* item.pagemap?.cse_image?.[0]?.src.startsWith(p): "throw" is the TypeError
\* of calling startsWith on an undefined src
PrefixTest(item, p) ==
    IF Len(item) = 0 THEN "falsy"
    ELSE IF ~item[1].def THEN "throw"
    ELSE IF StartsWith(item[1].s, p) THEN "truthy" ELSE "falsy"

\* Array.prototype.find with the prefix test, from index k on
RECURSIVE FindFrom(_, _, _)
FindFrom(items, p, k) ==
    IF k > Len(items) THEN [kind |-> "none", idx |-> 0]
    ELSE LET t == PrefixTest(items[k], p)
         IN  IF t = "throw" THEN [kind |-> "throw", idx |-> k]
             ELSE IF t = "truthy" THEN [kind |-> "found", idx |-> k]
             ELSE FindFrom(items, p, k + 1)

\* data.items?.find(item => ...startsWith(p))?.pagemap?.cse_image?.[0]?.src
\* as [kind, v]: kind "throw", or kind "value" with the value v
FindPrefixed(data, p) ==
    IF ~data.hasItems THEN [kind |-> "value", v |-> Undefined]
    ELSE LET f == FindFrom(data.items, p, 1)
         IN  IF f.kind = "throw" THEN [kind |-> "throw", v |-> Undefined]
             ELSE IF f.kind = "found"
                  THEN [kind |-> "value", v |-> FirstSrc(data.items[f.idx])]
                  ELSE [kind |-> "value", v |-> Undefined]

\* data.items?.[0]?.pagemap?.cse_image?.[0]?.src
FirstImage(data) ==
    IF data.hasItems /\ Len(data.items) > 0 THEN FirstSrc(data.items[1]) ELSE Undefined

(* ------------------------ outcomes of resolution ----------------------- *)
\* url: the string returned; chosen: the candidate (local variable) it was
\* made from
Returned(url, chosen) == [kind |-> "url", url |-> url, chosen |-> chosen]

Null == [kind |-> "null", url |-> <<>>, chosen |-> <<>>]

Thrown == [kind |-> "throw", url |-> <<>>, chosen |-> <<>>]


(* ----------------- batch page: searchForImage, selection --------------- *)
Stores == {"TARGET", "BESTBUY", "HOMEDEPOT", "LOWES"}

\* the TARGET branch of searchForImage
SelectTarget(data) ==
    LET targetImage == FindPrefixed(data, TargetPrefix)
    IN  IF targetImage.kind = "throw" THEN Thrown
        ELSE IF Truthy(targetImage.v)
             THEN Returned(targetImage.v.s \o TargetParams, targetImage.v.s)
             ELSE Null

\* the HOMEDEPOT branch of searchForImage
SelectHomeDepot(data) ==
    LET homeDepotImage == FindPrefixed(data, HomeDepotPrefix)
        firstImage == FirstImage(data)
    IN  IF homeDepotImage.kind = "throw" THEN Thrown
        ELSE IF Truthy(homeDepotImage.v)
             THEN Returned(homeDepotImage.v.s, homeDepotImage.v.s)
             ELSE IF Truthy(firstImage)
                  THEN Returned(firstImage.s, firstImage.s)
                  ELSE Null

\* the BESTBUY branch of searchForImage
SelectBestBuy(data) ==
    LET bestBuyImage == FirstImage(data)
    IN  IF Truthy(bestBuyImage) THEN Returned(bestBuyImage.s, bestBuyImage.s) ELSE Null

\* the rewrite applied to a preferred-prefix match of LOWES
LowesRewritePreferred(lowesImage) ==
    IF MatchesSize(lowesImage) THEN ReplaceSize(lowesImage) ELSE lowesImage

\* a fallback rewrite that leaves out the test of the Lowes prefix
LowesRewriteFallbackUngated(firstImage) ==
    IF MatchesSize(firstImage) THEN ReplaceSize(firstImage) ELSE firstImage

\* the rewrite applied to the first-image fallback of LOWES
LowesRewriteFallback(firstImage) ==
    IF StartsWith(firstImage, LowesPrefix) /\ MatchesSize(firstImage)
    THEN ReplaceSize(firstImage)
    ELSE firstImage

\* the LOWES branch of searchForImage
SelectLowes(data) ==
    LET lowesImage == FindPrefixed(data, LowesPrefix)
        firstImage == FirstImage(data)
    IN  IF lowesImage.kind = "throw" THEN Thrown
        ELSE IF Truthy(lowesImage.v)
             THEN Returned(LowesRewritePreferred(lowesImage.v.s), lowesImage.v.s)
             ELSE IF Truthy(firstImage)
                  THEN Returned(LowesRewriteFallback(firstImage.s), firstImage.s)
                  ELSE Null

\* searchForImage after response.json(): the store-specific strategy
searchForImageSelect(st, data) ==
    IF st = "TARGET" THEN SelectTarget(data)
    ELSE IF st = "HOMEDEPOT" THEN SelectHomeDepot(data)
    ELSE IF st = "BESTBUY" THEN SelectBestBuy(data)
    ELSE IF st = "LOWES" THEN SelectLowes(data)
    ELSE Null

(* --------------- interactive page: handleSearch, selection ------------- *)
HomeStores == {"TARGET", "BESTBUY", "HOMEDEPOT"}

\* foundImage of handleSearch, as [kind, v]
FoundImage(st, data) ==
    IF st = "TARGET" THEN FindPrefixed(data, TargetPrefix)
    ELSE IF st = "HOMEDEPOT"
         THEN LET found == FindPrefixed(data, HomeDepotPrefix)
              IN  IF found.kind = "throw" THEN found
                  ELSE IF ~Truthy(found.v) /\ data.hasItems /\ Len(data.items) > 0
                       THEN [kind |-> "value", v |-> FirstSrc(data.items[1])]
                       ELSE found
    ELSE IF st = "BESTBUY" THEN [kind |-> "value", v |-> FirstImage(data)]
    ELSE [kind |-> "value", v |-> Undefined]

\* a handleSearch that appends the quality parameters for no store
handleSearchSelectPlain(st, data) ==
    LET foundImage == FoundImage(st, data)
    IN  IF foundImage.kind = "throw" THEN Thrown
        ELSE IF Truthy(foundImage.v)
             THEN Returned(foundImage.v.s, foundImage.v.s)
             ELSE Null

\* handleSearch from foundImage to the URL it hands to the proxy path
handleSearchSelect(st, data) ==
    LET foundImage == FoundImage(st, data)
    IN  IF foundImage.kind = "throw" THEN Thrown
        ELSE IF Truthy(foundImage.v)
             THEN IF st = "TARGET"
                  THEN Returned(foundImage.v.s \o TargetParams, foundImage.v.s)
                  ELSE Returned(foundImage.v.s, foundImage.v.s)
             ELSE Null

(* ------------------------ URI component coding ------------------------- *)
\* <<token, its percent-encoded form>> for the tokens that hold reserved
\* characters; every other token is made of unreserved characters only
EncPairs ==
    { <<"https://", "https%3A%2F%2F">>,
      <<"http://", "http%3A%2F%2F">>,
      <<"/is/image/Target/a", "%2Fis%2Fimage%2FTarget%2Fa">>,
      <<".com/b.jpg", ".com%2Fb.jpg">>,
      <<"mobileimages.lowes.com/productimages/", "mobileimages.lowes.com%2Fproductimages%2F">>,
      <<"/x.jpg", "%2Fx.jpg">>,
      <<"/a.png", "%2Fa.png">>,
      <<"/", "%2F">>,
      <<"?", "%3F">>,
      <<"size=", "size%3D">>,
      <<"&", "%26">>,
      <<"w=1", "w%3D1">>,
      <<"?qlt=65&fmt=webp&hei=1200&wid=1200", "%3Fqlt%3D65%26fmt%3Dwebp%26hei%3D1200%26wid%3D1200">>,
      <<"%25", "%2525">>,
      <<"%", "%25">> }

EncodeTok(t) ==
    IF \E e \in EncPairs : e[1] = t THEN (CHOOSE e \in EncPairs : e[1] = t)[2] ELSE t

DecodeTok(t) ==
    IF \E e \in EncPairs : e[2] = t THEN (CHOOSE e \in EncPairs : e[2] = t)[1] ELSE t

\* encodeURIComponent
encodeURIComponent(s) == [k \in 1..Len(s) |-> EncodeTok(s[k])]

\* a '%' that starts no escape sequence
BarePercent(s) == \E k \in 1..Len(s) : s[k] = "%"

\* decodeURIComponent: [kind, s], kind "throw" is the URIError
decodeURIComponent(s) ==
    IF BarePercent(s) THEN [kind |-> "throw", s |-> <<>>]
    ELSE [kind |-> "value", s |-> [k \in 1..Len(s) |-> DecodeTok(s[k])]]

\* the percent-decoding of URLSearchParams, which keeps a malformed '%'
SearchParamsDecode(s) == [k \in 1..Len(s) |-> DecodeTok(s[k])]

\* `/api/image-proxy?url=${encodeURIComponent(u)}`
ProxyPath == <<"/api/image-proxy?url=">>

ProxyUrl(u) == ProxyPath \o encodeURIComponent(u)

\* searchParams.get('url') of a request made with ProxyUrl(u)
ParamOfProxyUrl(p) == Str(SearchParamsDecode(SubSeq(p, 2, Len(p))))

(* ---------------------- image proxy: GET handler ----------------------- *)
JsonResponse(msg, st) ==
    [status |-> st, contentType |-> "application/json", cacheControl |-> "",
     body |-> "", error |-> msg]

ImageResponse(buf, ctype) ==
    [status |-> 200, contentType |-> ctype, cacheControl |-> "public, max-age=86400",
     body |-> buf, error |-> ""]

\* what the origin does with the fetch: the request fails, the status is
\* not a success, reading the body fails, or a body arrives with or
\* without a content-type header ("" stands for no header)
Origins ==
    { [kind |-> k, contentType |-> "", body |-> ""] : k \in {"neterr", "status", "bodyerr"} }
    \cup { [kind |-> "ok", contentType |-> c, body |-> b] :
             c \in {"", "image/jpeg", "text/html"}, b \in {"bytes1", "bytes2"} }

\* the origin's answers tried by the batch page
SampleOrigins ==
    { [kind |-> "status", contentType |-> "", body |-> ""],
      [kind |-> "ok", contentType |-> "image/jpeg", body |-> "bytes1"] }

\* GET up to the fetch: a response, or the URL to fetch
GETBeforeFetch(imageUrl) ==
    IF ~Truthy(imageUrl)
    THEN [kind |-> "respond", resp |-> JsonResponse("Missing image URL parameter", 400), url |-> <<>>]
    ELSE LET decodedUrl == decodeURIComponent(imageUrl.s)
         IN  IF decodedUrl.kind = "throw"
             THEN [kind |-> "respond", resp |-> JsonResponse("Failed to fetch image", 500), url |-> <<>>]
             ELSE IF ~StartsWith(decodedUrl.s, HttpsPrefix)
                  THEN [kind |-> "respond",
                        resp |-> JsonResponse("Only HTTPS image URLs are supported", 400),
                        url |-> <<>>]
                  ELSE [kind |-> "fetch", resp |-> JsonResponse("", 0), url |-> decodedUrl.s]

\* GET from the fetch's outcome on
GETAfterFetch(origin) ==
    IF origin.kind # "ok"
    THEN JsonResponse("Failed to fetch image", 500)
    ELSE ImageResponse(origin.body,
                       IF origin.contentType # "" THEN origin.contentType ELSE "image/webp")

(* ------------------------------- state --------------------------------- *)
VARIABLES
    \* resolution of one search response at both call sites
    rStore, rData, rBatch, rInter,
    \* image proxy: one request being handled
    pPc, pParam, pUrl, pOrigin, pResponses, pFetched,
    \* interactive page (Home)
    searchTerm, homeStore, imageUrl, isLoading, error, hPc, hStore, hQuery, hResp,
    \* batch page (CsvPage)
    disk, file, store, isProcessing, processingStatus, pc, validRows, i, zip, query, url,
    searchRequests, proxyRequests, failed, downloaded, inserted, inFlight

resolveVars == <<rStore, rData, rBatch, rInter>>

proxyVars == <<pPc, pParam, pUrl, pOrigin, pResponses, pFetched>>

homeVars == <<searchTerm, homeStore, imageUrl, isLoading, error, hPc, hStore, hQuery, hResp>>

batchVars ==
    <<disk, file, store, isProcessing, processingStatus, pc, validRows, i, zip, query, url,
      searchRequests, proxyRequests, failed, downloaded, inserted, inFlight>>

vars == <<resolveVars, proxyVars, homeVars, batchVars>>

Pending == [kind |-> "pending", url |-> <<>>, chosen |-> <<>>]

(* ------------------ resolution of one search response ------------------ *)
ResolveIdle ==
    /\ rStore = "TARGET"
    /\ rData = NoItems
    /\ rBatch = Pending
    /\ rInter = Pending

\* the batch page resolves the response
BatchResolves ==
    /\ rBatch = Pending
    /\ rBatch' = searchForImageSelect(rStore, rData)
    /\ UNCHANGED <<rStore, rData, rInter, proxyVars, homeVars, batchVars>>

\* the interactive page resolves the response (it offers three stores)
InteractiveResolves ==
    /\ rInter = Pending
    /\ rStore \in HomeStores
    /\ rInter' = handleSearchSelect(rStore, rData)
    /\ UNCHANGED <<rStore, rData, rBatch, proxyVars, homeVars, batchVars>>

(* ----------------------------- image proxy ----------------------------- *)
\* most tokens in the url parameter of a proxy request
MaxParamLen == 2

ParamTokens == {"https://", "http://", "cdn.example", "/a.png", "%", "%25", "%2F"}

\* searchParams.get('url'): null (Undefined) when the parameter is missing
ProxyParams == { Undefined } \cup { Str(s) : s \in SeqsUpTo(ParamTokens, MaxParamLen) }

\* no fetch was answered
NoOrigin == [kind |-> "none", contentType |-> "", body |-> ""]

ProxyIdle ==
    /\ pPc = "idle"
    /\ pParam = Undefined
    /\ pUrl = <<>>
    /\ pOrigin = NoOrigin
    /\ pResponses = <<>>
    /\ pFetched = <<>>

\* GET, from the request to the first await (the fetch) or to a response
GETReceive(param) ==
    /\ pPc = "idle"
    /\ pParam' = param
    /\ LET r == GETBeforeFetch(param)
       IN  IF r.kind = "respond"
           THEN /\ pResponses' = Append(pResponses, r.resp)
                /\ pPc' = "done"
                /\ UNCHANGED <<pUrl, pOrigin, pFetched>>
           ELSE /\ pUrl' = r.url
                /\ pFetched' = Append(pFetched, r.url)
                /\ pPc' = "fetching"
                /\ UNCHANGED <<pOrigin, pResponses>>
    /\ UNCHANGED <<resolveVars, homeVars, batchVars>>

\* GET, from the fetch's outcome to the response
GETRespond(origin) ==
    /\ pPc = "fetching"
    /\ pOrigin' = origin
    /\ pResponses' = Append(pResponses, GETAfterFetch(origin))
    /\ pPc' = "done"
    /\ UNCHANGED <<pParam, pUrl, pFetched, resolveVars, homeVars, batchVars>>

\* the handler keeps no state: the next request starts afresh
GETNextRequest ==
    /\ pPc = "done"
    /\ pPc' = "idle"
    /\ pParam' = Undefined
    /\ pUrl' = <<>>
    /\ pOrigin' = NoOrigin
    /\ pResponses' = <<>>
    /\ pFetched' = <<>>
    /\ UNCHANGED <<resolveVars, homeVars, batchVars>>

(* --------------------------- the search call --------------------------- *)
\* search responses tried by the two pages
SampleData ==
    { NoItems,
      [hasItems |-> TRUE, items |-> <<>>],
      [hasItems |-> TRUE, items |-> << <<Str(UrlTarget)>> >>],
      [hasItems |-> TRUE, items |-> << <<Str(UrlOtherThumb)>>, <<Str(UrlTarget)>> >>],
      [hasItems |-> TRUE, items |-> << <<Str(UrlHttp)>> >>],
      [hasItems |-> TRUE, items |-> << <<Undefined>> >>],
      [hasItems |-> TRUE, items |-> << <<Str(UrlLowesThumb)>> >>] }

\* what the search API does with the request: the request fails, the
\* status is not a success, the body is no JSON, or a parsed result arrives
SearchResponses ==
    { [kind |-> k, data |-> NoItems] : k \in {"neterr", "status", "badjson"} }
    \cup { [kind |-> "data", data |-> d] : d \in SampleData }

NoResponse == [kind |-> "none", data |-> NoItems]

\* the message of the error thrown for a response, when one is thrown
ErrorMessage(resp) ==
    IF resp.kind = "neterr" THEN "Failed to fetch"
    ELSE IF resp.kind = "status" THEN "API request failed with status"
    ELSE IF resp.kind = "badjson" THEN "Unexpected token in JSON"
    ELSE "Cannot read properties of undefined (reading 'startsWith')"

\* searchForImage from the answer of its fetch on
searchForImage(st, resp) ==
    IF resp.kind # "data" THEN Thrown ELSE searchForImageSelect(st, resp.data)

(* -------------------------- interactive page --------------------------- *)
NullValue == "<null>"

Terms == {"", " ", "tv"}

\* String.prototype.trim on the terms and cells of the model
Trim(s) == IF s = " " THEN "" ELSE s

\* the query of handleSearch
HomeQuery(st, term) ==
    IF st = "TARGET" THEN <<"target ", term>>
    ELSE IF st = "BESTBUY" THEN <<"BestBuy ", term>>
    ELSE IF st = "HOMEDEPOT" THEN <<"Home Depot ", term>>
    ELSE <<term>>

HomeIdle ==
    /\ searchTerm = ""
    /\ homeStore = "TARGET"
    /\ imageUrl = Undefined
    /\ isLoading = FALSE
    /\ error = NullValue
    /\ hPc = "idle"
    /\ hStore = "TARGET"
    /\ hQuery = <<>>
    /\ hResp = NoResponse

setSearchTerm(t) ==
    /\ searchTerm' = t
    /\ UNCHANGED <<homeStore, imageUrl, isLoading, error, hPc, hStore, hQuery, hResp>>
    /\ UNCHANGED <<resolveVars, proxyVars, batchVars>>

setHomeStore(st) ==
    /\ homeStore' = st
    /\ UNCHANGED <<searchTerm, imageUrl, isLoading, error, hPc, hStore, hQuery, hResp>>
    /\ UNCHANGED <<resolveVars, proxyVars, batchVars>>

\* handleSearch up to its fetch; the button is disabled while loading
handleSearch ==
    /\ ~isLoading
    /\ hPc = "idle"
    /\ IF Trim(searchTerm) = ""
       THEN /\ error' = "Please enter a search term"
            /\ UNCHANGED <<imageUrl, isLoading, hPc, hStore, hQuery, hResp>>
       ELSE /\ isLoading' = TRUE
            /\ error' = NullValue
            /\ imageUrl' = Undefined
            /\ hStore' = homeStore
            /\ hQuery' = HomeQuery(homeStore, searchTerm)
            /\ hResp' = NoResponse
            /\ hPc' = "searching"
    /\ UNCHANGED <<searchTerm, homeStore>>
    /\ UNCHANGED <<resolveVars, proxyVars, batchVars>>

\* what handleSearch sets after a parsed response: [imageUrl, error]
HomeAfterData(st, data) ==
    LET sel == handleSearchSelect(st, data)
    IN  IF sel.kind = "throw"
        THEN [imageUrl |-> Undefined,
              error |-> "Error: Cannot read properties of undefined (reading 'startsWith')"]
        ELSE IF sel.kind = "url"
             THEN [imageUrl |-> Str(ProxyUrl(sel.url)), error |-> NullValue]
             ELSE [imageUrl |-> Undefined, error |-> "No matching image found"]

\* what handleSearch sets when the search call throws
HomeAfterFailure(resp) ==
    [imageUrl |-> Undefined,
     error |-> IF resp.kind = "neterr" THEN "Error: Failed to fetch"
               ELSE IF resp.kind = "status" THEN "Error: API request failed with status"
               ELSE "Error: Unexpected token in JSON"]

\* handleSearch from the answer of its fetch to the end of finally
handleSearchReturns(resp) ==
    /\ hPc = "searching"
    /\ hResp' = resp
    /\ LET after == IF resp.kind = "data" THEN HomeAfterData(hStore, resp.data)
                    ELSE HomeAfterFailure(resp)
       IN  /\ imageUrl' = (IF after.imageUrl.def THEN after.imageUrl ELSE imageUrl)
           /\ error' = (IF after.error # NullValue THEN after.error ELSE error)
    /\ isLoading' = FALSE
    /\ hPc' = "idle"
    /\ UNCHANGED <<searchTerm, homeStore, hStore, hQuery>>
    /\ UNCHANGED <<resolveVars, proxyVars, batchVars>>

(* ------------------------------ batch page ----------------------------- *)
\* a parsed CSV row: its cells by column, "" for an empty or missing cell
Row(tcin, model, desc, retail, brand, manufacturer) ==
    [TCIN |-> tcin, Model |-> model, ItemDescription |-> desc, UnitRetail |-> retail,
     Brand |-> brand, Manufacturer |-> manufacturer]

\* rows an uploaded file may hold: two whose file names collide, one that
\* has a TCIN only, one whose identifier cells are blank
SampleRows ==
    { Row("t1", "m_1", "d", "9", "b", ""),
      Row("t2", "m 1", "d", "9", "", "b"),
      Row("t3", "", "", "", "", ""),
      Row(" ", " ", " ", "", "", "") }

Files == SeqsUpTo(SampleRows, MaxRows)

NoFile == [present |-> FALSE, rows |-> <<>>]

\* row[column]
Cell(row, column) ==
    IF column = "TCIN" THEN row.TCIN
    ELSE IF column = "Model" THEN row.Model
    ELSE IF column = "Item Description" THEN row.ItemDescription
    ELSE IF column = "Unit Retail" THEN row.UnitRetail
    ELSE IF column = "Brand" THEN row.Brand
    ELSE IF column = "Manufacturer" THEN row.Manufacturer
    ELSE ""

\* the identifier column of a store, "" when none is defined
IdColumnName(st) ==
    IF st = "TARGET" THEN "TCIN"
    ELSE IF st = "BESTBUY" THEN "Model"
    ELSE IF st = "HOMEDEPOT" THEN "Item Description"
    ELSE IF st = "LOWES" THEN "Model"
    ELSE ""

\* a filter that leaves out the trim
IsValidRowUntrimmed(row, idColumnName) == Cell(row, idColumnName) # ""

\* the filter of validRows
IsValidRow(row, idColumnName) ==
    Cell(row, idColumnName) # "" /\ Trim(Cell(row, idColumnName)) # ""

RECURSIVE FilterRows(_, _)
FilterRows(rows, idColumnName) ==
    IF rows = <<>> THEN <<>>
    ELSE (IF IsValidRow(Head(rows), idColumnName) THEN <<Head(rows)>> ELSE <<>>)
         \o FilterRows(Tail(rows), idColumnName)

\* the query of processCSV
BatchQuery(st, id) ==
    IF st = "TARGET" THEN <<"TARGET ", id>>
    ELSE IF st = "BESTBUY" THEN <<"BestBuy ", id>>
    ELSE IF st = "HOMEDEPOT" THEN <<"Home Depot ", id>>
    ELSE IF st = "LOWES" THEN <<"Lowes ", id>>
    ELSE <<id>>

\* s.replace(/_/g, " ") on the cells of the model
ReplaceUnderscores(s) == IF s = "m_1" THEN "m 1" ELSE s

\* the four fields of `${model}_${item_desc}_${unit_retail}_${brand}.webp`;
\* no field holds an underscore, so the fields determine the name
Filename(row) ==
    << ReplaceUnderscores(row.Model),
       ReplaceUnderscores(row.ItemDescription),
       ReplaceUnderscores(row.UnitRetail),
       ReplaceUnderscores(IF row.Brand # "" THEN row.Brand ELSE row.Manufacturer) >>

\* an archive that keeps both entries of one name
ZipFileKeepsBoth(z, filename, blob) == z \cup { [name |-> filename, blob |-> blob] }

\* zip.file(filename, blob): an entry of the same name is replaced
ZipFile(z, filename, blob) ==
    { e \in z : e.name # filename } \cup { [name |-> filename, blob |-> blob] }

Status(current, total, currentItem, status, message, downloadUrl) ==
    [current |-> current, total |-> total, currentItem |-> currentItem,
     status |-> status, message |-> message, downloadUrl |-> downloadUrl]

NoArchive == [made |-> FALSE, entries |-> {}]

IdleStatus == Status(0, 0, "", "idle", "", NoArchive)

\* the status set by the outer catch of the parse callback
ErrorStatus(message) == Status(0, 0, "", "error", message, NoArchive)

BatchIdle ==
    /\ disk = <<>>
    /\ file = NoFile
    /\ store = "TARGET"
    /\ isProcessing = FALSE
    /\ processingStatus = IdleStatus
    /\ pc = "idle"
    /\ validRows = <<>>
    /\ i = 0
    /\ zip = {}
    /\ query = <<>>
    /\ url = <<>>
    /\ searchRequests = 0
    /\ proxyRequests = 0
    /\ failed = {}
    /\ downloaded = {}
    /\ inserted = {}
    /\ inFlight = {}

\* the locals of the parse callback and the record of the run; pc is
\* "done" from the end of a run to the next event of the page, and the
\* locals are gone after it
runVars ==
    <<validRows, i, zip, query, url, searchRequests, proxyRequests,
      failed, downloaded, inserted, inFlight>>

ClearRun ==
    /\ validRows' = <<>>
    /\ i' = 0
    /\ zip' = {}
    /\ query' = <<>>
    /\ url' = <<>>
    /\ searchRequests' = 0
    /\ proxyRequests' = 0
    /\ failed' = {}
    /\ downloaded' = {}
    /\ inserted' = {}
    /\ inFlight' = {}

\* the user picks the file of the disk; the file input is disabled while
\* processing
handleFileChange ==
    /\ ~isProcessing
    /\ file' = [present |-> TRUE, rows |-> disk]
    /\ processingStatus' = IdleStatus
    /\ pc' = "idle"
    /\ ClearRun
    /\ UNCHANGED <<disk, store, isProcessing>>
    /\ UNCHANGED <<resolveVars, proxyVars, homeVars>>

\* the Clear button is shown when a file is chosen and nothing is processing
resetFileInput ==
    /\ file.present
    /\ ~isProcessing
    /\ file' = NoFile
    /\ pc' = "idle"
    /\ ClearRun
    /\ UNCHANGED <<disk, store, isProcessing, processingStatus>>
    /\ UNCHANGED <<resolveVars, proxyVars, homeVars>>

\* the store select is disabled while processing
setStore(st) ==
    /\ ~isProcessing
    /\ store' = st
    /\ pc' = "idle"
    /\ ClearRun
    /\ UNCHANGED <<disk, file, isProcessing, processingStatus>>
    /\ UNCHANGED <<resolveVars, proxyVars, homeVars>>

\* processCSV up to Papa.parse; the button is disabled without a file and
\* while processing
processCSV ==
    /\ file.present
    /\ ~isProcessing
    /\ isProcessing' = TRUE
    /\ processingStatus' = Status(0, 0, "", "processing", "Parsing CSV file...", NoArchive)
    /\ pc' = "parsing"
    /\ ClearRun
    /\ UNCHANGED <<disk, file, store>>
    /\ UNCHANGED <<resolveVars, proxyVars, homeVars>>

\* the error callback of Papa.parse
ParseError ==
    /\ pc = "parsing"
    /\ processingStatus' = ErrorStatus("CSV parsing error")
    /\ isProcessing' = FALSE
    /\ pc' = "done"
    /\ UNCHANGED <<disk, file, store, runVars>>
    /\ UNCHANGED <<resolveVars, proxyVars, homeVars>>

\* the outer catch and finally of the parse callback
OuterCatch(message) ==
    /\ processingStatus' = ErrorStatus(message)
    /\ isProcessing' = FALSE
    /\ pc' = "done"

\* the status update at the head of an iteration
StatusSearching(prev, k, id) ==
    [prev EXCEPT !.current = k + 1, !.currentItem = id, !.message = "Searching for item"]

\* a status update after the loop that drops the previous fields
StatusZippingFresh(prev) ==
    Status(0, prev.total, "", "downloading", "Generating ZIP file...", NoArchive)

\* the status update after the loop
StatusZipping(prev) ==
    [prev EXCEPT !.status = "downloading", !.message = "Generating ZIP file..."]

\* a request of the run: the search or the proxy fetch of the row-th valid row
Request(row, kind) == [row |-> row, kind |-> kind]

\* the await that the running continuation has just resumed from: the
\* request of row i + 1 whose answer it handles
Answered == Request(i + 1, IF pc = "fetch" THEN "fetch" ELSE "search")

\* a loop whose next iteration passes over a row: for (...; i += 2)
LoopFromSkipping(prev, rows, k) ==
    IF k + 1 < Len(rows)
    THEN LET id == Trim(Cell(rows[k + 2], IdColumnName(store)))
         IN  /\ i' = k + 1
             /\ processingStatus' = StatusSearching(prev, k + 1, id)
             /\ query' = BatchQuery(store, id)
             /\ url' = <<>>
             /\ searchRequests' = searchRequests + 1
             /\ inFlight' = (inFlight \ {Answered}) \cup {Request(k + 2, "search")}
             /\ pc' = "search"
    ELSE /\ i' = Len(rows)
         /\ processingStatus' = StatusZipping(prev)
         /\ query' = <<>>
         /\ url' = <<>>
         /\ inFlight' = inFlight \ {Answered}
         /\ pc' = "zipgen"
         /\ UNCHANGED searchRequests

\* the head of the loop at index k for the status prev: the next row's
\* search is issued, or the loop is over and the archive is generated
LoopFrom(prev, rows, k) ==
    IF k < Len(rows)
    THEN LET id == Trim(Cell(rows[k + 1], IdColumnName(store)))
         IN  /\ i' = k
             /\ processingStatus' = StatusSearching(prev, k, id)
             /\ query' = BatchQuery(store, id)
             /\ url' = <<>>
             /\ searchRequests' = searchRequests + 1
             /\ inFlight' = (inFlight \ {Answered}) \cup {Request(k + 1, "search")}
             /\ pc' = "search"
    ELSE /\ i' = k
         /\ processingStatus' = StatusZipping(prev)
         /\ query' = <<>>
         /\ url' = <<>>
         /\ inFlight' = inFlight \ {Answered}
         /\ pc' = "zipgen"
         /\ UNCHANGED searchRequests

\* the complete callback of Papa.parse up to its first await
ParseComplete ==
    /\ pc = "parsing"
    /\ LET idColumnName == IdColumnName(store)
           valid == FilterRows(file.rows, idColumnName)
       IN  IF idColumnName = ""
           THEN /\ OuterCatch("Error: No column name defined for store")
                /\ UNCHANGED runVars
           ELSE IF Len(valid) = 0
                THEN /\ OuterCatch("Error: No valid values found in the CSV")
                     /\ UNCHANGED runVars
                ELSE /\ validRows' = valid
                     /\ zip' = {}
                     /\ LoopFrom([processingStatus EXCEPT !.total = Len(valid),
                                                         !.message = "Found items to process"],
                                 valid, 0)
                     /\ UNCHANGED <<isProcessing, proxyRequests, failed, downloaded,
                                    inserted>>
    /\ UNCHANGED <<disk, file, store>>
    /\ UNCHANGED <<resolveVars, proxyVars, homeVars>>

\* a throw inside the try of row i that reaches the outer catch
RowCatchRethrows(message) ==
    /\ failed' = failed \cup {i + 1}
    /\ OuterCatch(message)
    /\ inFlight' = inFlight \ {Answered}
    /\ UNCHANGED <<i, query, url, searchRequests>>

\* a throw inside the try of row i is caught there: the loop goes on
RowCatch(message) ==
    /\ failed' = failed \cup {i + 1}
    /\ LoopFrom(processingStatus, validRows, i + 1)
    /\ UNCHANGED isProcessing

\* the callback from the answer of searchForImage's fetch to its next await
SearchReturns(resp) ==
    /\ pc = "search"
    /\ LET originalImageUrl == searchForImage(store, resp)
       IN  IF originalImageUrl.kind = "throw"
           THEN /\ RowCatch(ErrorMessage(resp))
                /\ UNCHANGED proxyRequests
           ELSE IF originalImageUrl.kind = "url"
                THEN /\ processingStatus' =
                            [processingStatus EXCEPT !.status = "downloading",
                                                     !.message = "Downloading image"]
                     /\ url' = originalImageUrl.url
                     /\ proxyRequests' = proxyRequests + 1
                     /\ inFlight' = (inFlight \ {Answered}) \cup {Request(i + 1, "fetch")}
                     /\ pc' = "fetch"
                     /\ UNCHANGED <<isProcessing, i, query, searchRequests, failed>>
                ELSE /\ LoopFrom(processingStatus, validRows, i + 1)
                     /\ UNCHANGED <<isProcessing, proxyRequests, failed>>
    /\ UNCHANGED <<disk, file, store, validRows, zip, downloaded, inserted>>
    /\ UNCHANGED <<resolveVars, proxyVars, homeVars>>

\* the response of the proxy route to fetch(proxyUrl), for the origin's answer
ProxyAnswer(proxyUrl, origin) ==
    LET r == GETBeforeFetch(ParamOfProxyUrl(proxyUrl))
    IN  IF r.kind = "respond" THEN r.resp ELSE GETAfterFetch(origin)

\* response.ok
ResponseOk(resp) == resp.status >= 200 /\ resp.status <= 299

\* the callback from the answer of fetch(proxyUrl) to its next await:
\* route is whether the proxy route was reached, blobOk whether
\* response.blob() resolved, insertOk whether zip.file returned
FetchReturns(route, origin, blobOk, insertOk) ==
    /\ pc = "fetch"
    /\ LET response == ProxyAnswer(ProxyUrl(url), origin)
       IN  IF route = "neterr"
           THEN /\ RowCatch("Failed to fetch")
                /\ UNCHANGED <<zip, downloaded, inserted>>
           ELSE IF ~ResponseOk(response)
                THEN /\ RowCatch("Failed to download image")
                     /\ UNCHANGED <<zip, downloaded, inserted>>
                ELSE IF ~blobOk
                     THEN /\ RowCatch("Failed to read the body")
                          /\ UNCHANGED <<zip, downloaded, inserted>>
                     ELSE IF ~insertOk
                          THEN /\ RowCatch("Failed to add the file")
                               /\ downloaded' = downloaded \cup {i + 1}
                               /\ UNCHANGED <<zip, inserted>>
                          ELSE /\ downloaded' = downloaded \cup {i + 1}
                               /\ zip' = ZipFile(zip, Filename(validRows[i + 1]), i + 1)
                               /\ inserted' = inserted \cup {i + 1}
                               /\ LoopFrom(processingStatus, validRows, i + 1)
                               /\ UNCHANGED <<isProcessing, failed>>
    /\ UNCHANGED <<disk, file, store, validRows, proxyRequests>>
    /\ UNCHANGED <<resolveVars, proxyVars, homeVars>>

\* the callback from the answer of zip.generateAsync to the end of finally
ZipGenerated(ok) ==
    /\ pc = "zipgen"
    /\ IF ok
       THEN /\ processingStatus' =
                   Status(Len(validRows), Len(validRows), "", "complete",
                          "Processing complete! Your download is ready.",
                          [made |-> TRUE, entries |-> zip])
            /\ isProcessing' = FALSE
            /\ pc' = "done"
       ELSE OuterCatch("Error: archive generation failed")
    /\ UNCHANGED <<disk, file, store, runVars>>
    /\ UNCHANGED <<resolveVars, proxyVars, homeVars>>

(* --------------------------- specifications ---------------------------- *)
\* one search response, resolved at both call sites
InitResolve ==
    /\ rStore \in Stores
    /\ rData \in SearchResults
    /\ rBatch = Pending
    /\ rInter = Pending
    /\ ProxyIdle /\ HomeIdle /\ BatchIdle

NextResolve == BatchResolves \/ InteractiveResolves

SpecResolve == InitResolve /\ [][NextResolve]_vars

\* the image proxy, request after request
InitProxy == ResolveIdle /\ ProxyIdle /\ HomeIdle /\ BatchIdle

NextProxy ==
    \/ \E param \in ProxyParams : GETReceive(param)
    \/ \E origin \in Origins : GETRespond(origin)
    \/ GETNextRequest

SpecProxy == InitProxy /\ [][NextProxy]_vars

\* the interactive page
InitHome == ResolveIdle /\ ProxyIdle /\ HomeIdle /\ BatchIdle

NextHome ==
    \/ \E t \in Terms : setSearchTerm(t)
    \/ \E st \in HomeStores : setHomeStore(st)
    \/ handleSearch
    \/ \E resp \in SearchResponses : handleSearchReturns(resp)

SpecHome == InitHome /\ [][NextHome]_vars

\* the batch page
Init ==
    /\ ResolveIdle /\ ProxyIdle /\ HomeIdle
    /\ disk \in Files
    /\ file = NoFile
    /\ store = "TARGET"
    /\ isProcessing = FALSE
    /\ processingStatus = IdleStatus
    /\ pc = "idle"
    /\ validRows = <<>>
    /\ i = 0
    /\ zip = {}
    /\ query = <<>>
    /\ url = <<>>
    /\ searchRequests = 0
    /\ proxyRequests = 0
    /\ failed = {}
    /\ downloaded = {}
    /\ inserted = {}
    /\ inFlight = {}

Next ==
    \/ handleFileChange
    \/ resetFileInput
    \/ \E st \in Stores : setStore(st)
    \/ processCSV
    \/ ParseError
    \/ ParseComplete
    \/ \E resp \in SearchResponses : SearchReturns(resp)
    \/ \E route \in {"neterr", "reached"}, origin \in SampleOrigins, blobOk \in BOOLEAN,
          insertOk \in BOOLEAN : FetchReturns(route, origin, blobOk, insertOk)
    \/ \E ok \in BOOLEAN : ZipGenerated(ok)

Spec == Init /\ [][Next]_vars

(* ------------------- properties of the resolution ---------------------- *)
\* the outcomes of the two call sites that are there to look at
Resolved == { o \in {rBatch, rInter} : o # Pending }

\* String.prototype.endsWith
EndsWith(s, suffix) ==
    Len(s) >= Len(suffix) /\ SubSeq(s, Len(s) - Len(suffix) + 1, Len(s)) = suffix

HasSizeParam(s) == \E k \in 1..Len(s) : s[k] = "size="

\* the items whose first candidate is a string starting with prefix p
PrefixedItems(data, p) ==
    IF ~data.hasItems THEN {}
    ELSE { k \in 1..Len(data.items) :
             /\ Len(data.items[k]) > 0
             /\ data.items[k][1].def
             /\ StartsWith(data.items[k][1].s, p) }

\* C1: whenever resolution (batch searchForImage or the interactive page's
\* foundImage selection) yields a URL, the URL starts with "https://".
C1_ResolvedIsHttps ==
    \A o \in Resolved : o.kind = "url" => StartsWith(o.url, HttpsPrefix)

\* C5: resolution of a parsed search response never throws, for every
\* retailer: no items, no candidate, or a first candidate without a src
\* string all resolve to absence.
C5_NeverThrows ==
    \A o \in Resolved : o.kind # "throw"

\* C6: for TARGET, resolution returns the first candidate of the earliest
\* item whose first candidate starts with "https://target.scene7.com", with
\* "?qlt=65&fmt=webp&hei=1200&wid=1200" appended, and absence when no item's
\* first candidate matches.
C6_TargetFirstMatch ==
    rStore = "TARGET" =>
        \A o \in Resolved :
            LET m == PrefixedItems(rData, TargetPrefix)
            IN  IF m = {}
                THEN o.kind = "null"
                ELSE /\ o.kind = "url"
                     /\ o.url = rData.items[Min(m)][1].s \o TargetParams

\* C7 as stated: for LOWES, whichever URL is chosen, one that ends with
\* "size=thumbnail" is resolved to one that ends with "size=full", and one
\* without a "size=" parameter is returned unchanged.
C7_LowesAnyChosenRewritten ==
    (rStore = "LOWES" /\ rBatch.kind = "url") =>
        /\ EndsWith(rBatch.chosen, <<"size=", "thumbnail">>)
               => EndsWith(rBatch.url, <<"size=", "full">>)
        /\ ~HasSizeParam(rBatch.chosen) => rBatch.url = rBatch.chosen

\* the URL LOWES chooses: the first candidate of the earliest item on the
\* Lowes image host, else the first candidate of the first item
LowesChoice(data) ==
    LET m == PrefixedItems(data, LowesPrefix)
    IN  IF m # {} THEN data.items[Min(m)][1].s ELSE data.items[1][1].s

\* C7 as amended: for LOWES, a chosen URL on the Lowes image host that ends
\* with "size=thumbnail" is resolved to the same URL ending with "size=full";
\* a chosen URL without a "size=" parameter, and a fallback URL that is not
\* on the Lowes image host, is returned unchanged.
C7_LowesRewrite ==
    (rStore = "LOWES" /\ rBatch.kind = "url") =>
        /\ rBatch.chosen = LowesChoice(rData)
        /\ (StartsWith(rBatch.chosen, LowesPrefix)
              /\ EndsWith(rBatch.chosen, <<"size=", "thumbnail">>))
               => /\ EndsWith(rBatch.url, <<"size=", "full">>)
                  /\ SubSeq(rBatch.url, 1, Len(rBatch.url) - 1)
                       = SubSeq(rBatch.chosen, 1, Len(rBatch.chosen) - 1)
        /\ ~HasSizeParam(rBatch.chosen) => rBatch.url = rBatch.chosen
        /\ ~StartsWith(rBatch.chosen, LowesPrefix) => rBatch.url = rBatch.chosen

\* C7 witness: LOWES fell back to the first image of a response of two
\* items, one that is not on the Lowes host and ends with "size=thumbnail"
C7_Witness_FallbackThumbnail ==
    /\ rStore = "LOWES"
    /\ rBatch.kind = "url"
    /\ rData.hasItems
    /\ Len(rData.items) = 2
    /\ PrefixedItems(rData, LowesPrefix) = {}
    /\ rBatch.chosen = UrlOtherThumb
    /\ rBatch.url = UrlOtherThumb

(* -------------------- properties of the image proxy -------------------- *)
\* C8: GET answers every request with exactly one response: 400 when the
\* url parameter is missing, 400 when the target does not start with
\* "https://", 500 when the origin fetch fails or returns a non-success
\* status, and otherwise the origin body with the origin's content-type
\* (default "image/webp") and a one-day cache directive; a target that is
\* not HTTPS is never fetched.
C8_ProxyResponses ==
    /\ \A k \in 1..Len(pFetched) : StartsWith(pFetched[k], HttpsPrefix)
    /\ pPc = "done" =>
         /\ Len(pResponses) = 1
         /\ IF ~Truthy(pParam)
            THEN pResponses[1].status = 400
            ELSE IF ~StartsWith(pParam.s, HttpsPrefix)
                 THEN pResponses[1].status = 400
                 ELSE IF pOrigin.kind \in {"neterr", "status", "bodyerr"}
                      THEN pResponses[1].status = 500
                      ELSE /\ pOrigin.kind = "ok"
                           /\ Len(pFetched) = 1
                           /\ pResponses[1] =
                                [status |-> 200,
                                 contentType |-> IF pOrigin.contentType = "" THEN "image/webp"
                                                 ELSE pOrigin.contentType,
                                 cacheControl |-> "public, max-age=86400",
                                 body |-> pOrigin.body,
                                 error |-> ""]

(* ------------------ properties of the interactive page ----------------- *)
HomeErrored == error \in { "Error: Failed to fetch", "Error: API request failed with status",
                           "Error: Unexpected token in JSON",
                           "Error: Cannot read properties of undefined (reading 'startsWith')" }

HomeNotFound == error = "No matching image found"

HomeResolved == imageUrl.def

\* C9: every search invocation with a non-empty trimmed term goes from idle
\* to searching and ends in exactly one of resolved, not-found or errored:
\* errored exactly when the search call fails, not-found exactly when the
\* call succeeds and nothing is resolved, resolved otherwise with the image
\* URL routed through the image proxy; the loading flag returns to false.
C9_SearchOutcome ==
    [][ /\ (hPc = "idle" /\ hPc' = "searching") => (~isLoading /\ isLoading')
        /\ (hPc = "searching" /\ hPc' = "idle") =>
             /\ isLoading /\ ~isLoading'
             /\ HomeErrored' <=> (hResp'.kind # "data")
             /\ HomeNotFound' <=> (hResp'.kind = "data" /\ ~HomeResolved')
             /\ HomeResolved' => StartsWith(imageUrl'.s, ProxyPath)
             /\ ~(HomeErrored' /\ HomeResolved') ]_vars

(* --------------------- properties of the batch page -------------------- *)
\* the failures outside the per-row loop, by the message they leave
FatalMessages ==
    { "CSV parsing error", "Error: No column name defined for store",
      "Error: No valid values found in the CSV", "Error: archive generation failed" }

\* no row holds an identifier for the store, or the store has no identifier
\* column
NoIdentifier(rows, st) ==
    \/ IdColumnName(st) = ""
    \/ \A k \in 1..Len(rows) : Trim(Cell(rows[k], IdColumnName(st))) = ""

\* C2: in a run with at least one valid row, no failure of a row's search,
\* download or archive insert moves the run to "error": the row is skipped,
\* every later row is processed and the run ends "complete"; the run ends
\* in "error" only by a failure outside the loop (parse failure, missing
\* column mapping, no valid rows, archive generation failure).
C2_RowFailuresNeverFatal ==
    /\ isProcessing => processingStatus.status \in {"processing", "downloading"}
    /\ processingStatus.status = "error" => processingStatus.message \in FatalMessages
    /\ pc = "done" =>
         \/ /\ processingStatus.status = "complete"
            /\ ~NoIdentifier(file.rows, store)
            /\ Len(validRows) > 0
            /\ i = Len(validRows)
            /\ searchRequests = Len(validRows)
         \/ /\ processingStatus.status = "error"
            /\ \/ processingStatus.message
                    \in {"CSV parsing error", "Error: archive generation failed"}
               \/ NoIdentifier(file.rows, store)

\* C2 witness: a run ended complete although its first row failed, and a
\* later row was put into the archive
C2_Witness_FailedRowThenComplete ==
    /\ pc = "done"
    /\ processingStatus.status = "complete"
    /\ 1 \in failed
    /\ \E k \in inserted : k > 1

\* C3 as stated: when a run ends "complete", the archive holds as many
\* entries as there are rows whose search, resolution and download all
\* succeeded (stated for the runs in which no archive insert failed).
C3_EntriesEqualDownloadedRows ==
    (pc = "done" /\ processingStatus.status = "complete" /\ inserted = downloaded) =>
        Cardinality(processingStatus.downloadUrl.entries) = Cardinality(downloaded)

\* the last row put into the archive under the file name of row k
LastOfName(k) ==
    \A j \in inserted : Filename(validRows[j]) = Filename(validRows[k]) => j <= k

\* C3 as amended: when a run ends "complete", the archive holds exactly one
\* entry per distinct file name among the rows whose search, resolution,
\* download and archive insert all succeeded, the image of the last such
\* row of that name; it holds as many entries as such rows when their file
\* names differ.
C3_EntriesArePerFileName ==
    (pc = "done" /\ processingStatus.status = "complete") =>
        /\ processingStatus.downloadUrl.made
        /\ processingStatus.downloadUrl.entries =
             { [name |-> Filename(validRows[k]), blob |-> k] :
                 k \in { j \in inserted : LastOfName(j) } }
        /\ inserted \subseteq downloaded
        /\ downloaded \ inserted \subseteq failed
        /\ (\A j, k \in inserted : j # k => Filename(validRows[j]) # Filename(validRows[k]))
              => Cardinality(processingStatus.downloadUrl.entries) = Cardinality(inserted)

\* C3 witness: three rows, the search of row 2 failed, and the archive of the
\* complete run holds the two entries of rows 1 and 3
C3_Witness_ThreeRowsTwoEntries ==
    /\ pc = "done"
    /\ processingStatus.status = "complete"
    /\ Len(validRows) = 3
    /\ failed = {2}
    /\ proxyRequests = 2
    /\ inserted = {1, 3}
    /\ Cardinality(processingStatus.downloadUrl.entries) = 2

\* C4: in a run where no row has a non-empty trimmed value in the store's
\* identifier column, or the store has no identifier column, the run ends
\* in "error" and no search request and no image proxy request is issued.
C4_NoIdentifierNoRequests ==
    (pc # "idle" /\ NoIdentifier(file.rows, store)) =>
        /\ searchRequests = 0
        /\ proxyRequests = 0
        /\ pc \in {"parsing", "done"}
        /\ pc = "done" => processingStatus.status = "error"

\* C4 witness: a run over a file whose only rows have blank identifiers has
\* ended
C4_Witness_BlankRowsRunEnded ==
    /\ pc = "done"
    /\ Len(file.rows) = 2
    /\ NoIdentifier(file.rows, store)
    /\ processingStatus.message = "Error: No valid values found in the CSV"

\* C10 as stated: from the start of a run to its terminal state, the
\* processed count never decreases from one status update to the next and
\* never exceeds the total.
C10_ProgressMonotonic ==
    [][ isProcessing =>
          /\ processingStatus'.current >= processingStatus.current
          /\ processingStatus'.current <= processingStatus'.total ]_vars

\* C10 as amended: during a run the processed count never exceeds the
\* total, and it never decreases from one status update to the next except
\* that the update that ends the run in "error" sets count and total to 0.
C10_ProgressMonotonicUntilError ==
    [][ isProcessing =>
          /\ processingStatus'.current <= processingStatus'.total
          /\ processingStatus'.status # "error"
                => processingStatus'.current >= processingStatus.current
          /\ processingStatus'.status = "error"
                => (processingStatus'.current = 0 /\ processingStatus'.total = 0) ]_vars

\* C10 witness: a run that had counted three rows ended in "error" when the
\* archive could not be generated
C10_Witness_ErrorAfterThreeRows ==
    /\ pc = "done"
    /\ Len(validRows) = 3
    /\ i = 3
    /\ processingStatus.status = "error"
    /\ processingStatus.current = 0


(* ------------------- sequential processing (batch) --------------------- *)
\* the query of the search of the k-th valid row
RowQuery(k) == BatchQuery(store, Trim(Cell(validRows[k], IdColumnName(store))))

\* the rows of the run that have an outcome: a caught failure, a body, an entry
SettledRows == failed \cup downloaded \cup inserted

\* C11: a batch run processes the valid rows in input order and strictly
\* sequentially. At most one search or proxy request of the run is in flight;
\* the request in flight belongs to the k-th valid row of the file, in the
\* file's order, where k is the number of searches issued so far (no row is
\* passed over or searched twice); a search in flight carries that row's
\* query; and only rows before that row have an outcome of search, fetch or
\* archive insert, so a row's search is issued after the previous row's work
\* has completed or failed.
C11_OneRequestInInputOrder ==
    /\ Cardinality(inFlight) <= 1
    /\ \A r \in inFlight :
           /\ validRows = FilterRows(file.rows, IdColumnName(store))
           /\ r.row \in 1..Len(validRows)
           /\ r.row = searchRequests
           /\ r.kind = "search" => query = RowQuery(r.row)
           /\ r.kind = "fetch" => proxyRequests \in 1..searchRequests
           /\ SettledRows \subseteq 1..(r.row - 1)

\* the fetch of the third row is in flight after the first row was archived
\* and the second row failed
C11_Witness_ThirdRowFetching ==
    /\ inFlight = {Request(3, "fetch")}
    /\ 1 \in inserted
    /\ 2 \in failed

(* ------------------- agreement of the two call sites ------------------- *)
\* C12: for each store offered by the interactive page (TARGET, BESTBUY,
\* HOMEDEPOT) and every search response, the URL the interactive page
\* resolves before wrapping it in the proxy path equals the URL returned by
\* the batch page's searchForImage, one yields absence exactly when the other
\* does, and one throws exactly when the other does.
C12_CallSitesAgree ==
    (rStore \in HomeStores /\ rBatch # Pending /\ rInter # Pending) =>
        /\ (rBatch.kind = "null") <=> (rInter.kind = "null")
        /\ (rBatch.kind = "throw") <=> (rInter.kind = "throw")
        /\ (rBatch.kind = "url") <=> (rInter.kind = "url")
        /\ rBatch.kind = "url" => rBatch.url = rInter.url

\* both call sites have resolved a TARGET response of two items whose second
\* item is the first match, to the same URL with the quality parameters
C12_Witness_TargetSecondItem ==
    /\ rStore = "TARGET"
    /\ PrefixedItems(rData, TargetPrefix) = {2}
    /\ rBatch.kind = "url"
    /\ rInter.kind = "url"
    /\ rInter.url = UrlTarget \o TargetParams

(* ------------------ image and error of the interactive page ------------ *)
\* C13: on the interactive page, after any sequence of search invocations,
\* including invocations rejected for an empty or whitespace-only term, the
\* displayed image URL and the error message are never both set.
C13_ImageAndErrorExclusive == ~(imageUrl.def /\ error # NullValue)
=============================================================================
